---- MODULE Spec2Model ----
(***************************************************************************)
(* Model of gp_markers_to_ableton (src/main.py): rehearsal marks of a      *)
(* Guitar Pro XML export are written as locators into an Ableton project.  *)
(*                                                                         *)
(* Python values are modelled as follows.                                  *)
(*   - a str that the code parses or builds digit by digit (a bar number,  *)
(*     an Id, a Time) is a sequence of one-character strings;              *)
(*   - an object that may be a str or None (Element.text) is PyStr(s) or   *)
(*     PyNone;                                                             *)
(*   - an Element is a record with its tag, the application that created   *)
(*     it (gen: object identity; 0 = it came with the document) and its    *)
(*     children (kids);                                                    *)
(*   - a path is a sequence of name pieces, ".als" being one piece.        *)
(***************************************************************************)
EXTENDS Integers, Sequences, FiniteSets, TLC

VARIABLES
    tree,       \* ableton_project_tree, the parsed project (NoTree before load)
    before,     \* tree as it was when add_markers_to_ableton_project was last entered
    log,        \* one entry per call of add_markers_to_ableton_project: its input and outcome
    markers,    \* result of extract_marker_from_gp_xml (NoValue before it returned)
    fs,         \* the file system: path -> file content or Absent
    fs0,        \* fs as it was when the current run started
    argv,       \* the two command line arguments: [als_file, gp_xml_file]
    entry,      \* "__main__": the script is run; "functions": the functions are called in its order
    pc,         \* the step about to run, or "done" / "aborted"
    raised,     \* the exception that ended the run, or "none"
    failedIn,   \* the step that raised it, or "none"
    runs        \* number of runs started on this file system

vars == <<tree, before, log, markers, fs, fs0, argv, entry, pc, raised, failedIn, runs>>

----------------------------------------------------------------------------
(* Bounds *)

MaxChildren == 3      \* children of LiveSet in a generated document
MaxMarkers == 2       \* records in a generated marker list
MaxRuns == 2          \* runs of the program on the same files
MaxMeasures == 2      \* measures in a generated notation document
MaxDirections == 2    \* directions in a generated measure
MaxDirTypes == 2      \* direction-type children of a generated direction
MaxRehearsals == 2    \* rehearsal children of a generated direction-type

----------------------------------------------------------------------------
(* Python values *)

PyNone == <<"NoneType">>
PyStr(s) == <<"str", s>>

\* "{}".format(v) for v a str or None
StrFormat(v) == IF v = PyNone THEN "None" ELSE v[2]

Digits == <<"0", "1", "2", "3", "4", "5", "6", "7", "8", "9">>

DigitValue(c) == CHOOSE d \in 0..9 : Digits[d + 1] = c

\* int(s) for s a non-empty string of decimal digits
RECURSIVE int(_)
int(s) ==
    IF s = <<>> THEN 0
    ELSE int(SubSeq(s, 1, Len(s) - 1)) * 10 + DigitValue(s[Len(s)])

RECURSIVE FormatNat(_)
FormatNat(n) ==
    IF n < 10 THEN <<Digits[n + 1]>>
    ELSE FormatNat(n \div 10) \o <<Digits[(n % 10) + 1]>>

\* "{}".format(n) and f"{n}" for n an int
IntFormat(n) == IF n < 0 THEN <<"-">> \o FormatNat(0 - n) ELSE FormatNat(n)

----------------------------------------------------------------------------
(* ElementTree *)

Element(tag, gen, kids) == [tag |-> tag, gen |-> gen, kids |-> kids]

\* Element.__bool__: an element is true iff it has children
Truthy(e) == Len(e.kids) # 0

\* index of the first child with this tag, 0 when there is none (find -> None)
Find(children, tag) ==
    IF \E i \in 1..Len(children) : children[i].tag = tag
    THEN CHOOSE i \in 1..Len(children) :
            /\ children[i].tag = tag
            /\ \A j \in 1..(i - 1) : children[j].tag # tag
    ELSE 0

\* Element.remove of the child at index i
Remove(children, i) == SubSeq(children, 1, i - 1) \o SubSeq(children, i + 1, Len(children))

\* Element.insert(p, e), p counted from 0
Insert(children, p, e) ==
    SubSeq(children, 1, p) \o <<e>> \o SubSeq(children, p + 1, Len(children))

NoTree == [hasLiveSet |-> FALSE, LiveSet |-> <<>>, loaded |-> FALSE]

Tree(hasLiveSet, children) == [hasLiveSet |-> hasLiveSet, LiveSet |-> children, loaded |-> TRUE]

----------------------------------------------------------------------------
(* add_markers_to_ableton_project *)

Anchor == "ViewStateSessionMixerHeight"

TimePerBar == 4

\* Locator with the bar number itself multiplied (the "- 1" forgotten)
LocatorBarNotShifted(locator_id, marker) ==
    [tag |-> "Locator",
     Id |-> IntFormat(locator_id),
     LomId |-> "0",
     Time |-> IntFormat(int(marker.bar) * TimePerBar),
     Name |-> StrFormat(marker.marker),
     Annotation |-> "",
     IsSongStart |-> "false"]

\* the Locator element built by one turn of the loop
Locator(locator_id, marker) ==
    [tag |-> "Locator",
     Id |-> IntFormat(locator_id),
     LomId |-> "0",
     Time |-> IntFormat((int(marker.bar) - 1) * TimePerBar),
     Name |-> StrFormat(marker.marker),
     Annotation |-> "",
     IsSongStart |-> "false"]

\* the loop over gp_markers_dict: locator_id counts from 1
LocatorEntries(gp_markers_dict) ==
    [i \in 1..Len(gp_markers_dict) |-> Locator(i, gp_markers_dict[i])]

\* removal of the "Locators" element "in case it exists"
RemoveStale(live_set) ==
    LET i == Find(live_set, "Locators")
    IN  IF i # 0 /\ Truthy(live_set[i]) THEN Remove(live_set, i) ELSE live_set

\* positions (from 1) of the children tagged ViewStateSessionMixerHeight
AnchorPositions(live_set) == {p \in 1..Len(live_set) : live_set[p].tag = Anchor}

Min(S) == CHOOSE x \in S : \A y \in S : x <= y

\* the insertion index with the "+ 1" forgotten: the anchor's own index
position_at_anchor(live_set) == Min(AnchorPositions(live_set)) - 1

\* index (from 0) at which the new element is inserted
position_for_locators_element_1(live_set) == (Min(AnchorPositions(live_set)) - 1) + 1

\* the function with the emptiness test placed after the removal of the old element
add_markers_checking_late(t, ms, gen) ==
    IF ~t.hasLiveSet THEN [tree |-> t, raised |-> "AttributeError"]
    ELSE
      LET ls1 == RemoveStale(t.LiveSet)
      IN  IF ms = <<>> THEN [tree |-> [t EXCEPT !.LiveSet = ls1], raised |-> "Exception"]
          ELSE IF AnchorPositions(ls1) = {}
          THEN [tree |-> [t EXCEPT !.LiveSet = ls1], raised |-> "IndexError"]
          ELSE
            LET ls2 == Insert(ls1, position_for_locators_element_1(ls1),
                              Element("Locators", gen, <<>>))
                j == Find(ls2, "Locators")
                locators_element_2 == Element("Locators", gen, LocatorEntries(ms))
                ls3 == [ls2 EXCEPT ![j].kids = Append(@, locators_element_2)]
            IN  [tree |-> [t EXCEPT !.LiveSet = ls3], raised |-> "none"]

\* the whole function, on tree t with marker list ms; gen names the objects it creates
add_markers_to_ableton_project(t, ms, gen) ==
    IF ms = <<>> THEN [tree |-> t, raised |-> "Exception"]
    ELSE IF ~t.hasLiveSet THEN [tree |-> t, raised |-> "AttributeError"]
    ELSE
      LET ls1 == RemoveStale(t.LiveSet)
      IN  IF AnchorPositions(ls1) = {}
          THEN [tree |-> [t EXCEPT !.LiveSet = ls1], raised |-> "IndexError"]
          ELSE
            LET ls2 == Insert(ls1, position_for_locators_element_1(ls1),
                              Element("Locators", gen, <<>>))
                j == Find(ls2, "Locators")
                locators_element_2 == Element("Locators", gen, LocatorEntries(ms))
                ls3 == [ls2 EXCEPT ![j].kids = Append(@, locators_element_2)]
            IN  [tree |-> [t EXCEPT !.LiveSet = ls3], raised |-> "none"]

----------------------------------------------------------------------------
(* Inputs of the splicer specification *)

OtherTags == <<"Tracks", "SomeOtherNode", "Scenes", "Transport", "MasterTrack">>

OtherTag(i) == IF i <= Len(OtherTags) THEN OtherTags[i] ELSE "SomeOtherNode"

StaleLocator ==
    [tag |-> "Locator", Id |-> <<"7">>, LomId |-> "0", Time |-> <<"6", "4">>,
     Name |-> "Old", Annotation |-> "", IsSongStart |-> "false"]

ChildKinds == {"other", "anchor", "staleEmpty", "staleFull"}

MakeChild(kind, i) ==
    CASE kind = "other" -> Element(OtherTag(i), 0, <<>>)
      [] kind = "anchor" -> Element(Anchor, 0, <<>>)
      [] kind = "staleEmpty" -> Element("Locators", 0, <<>>)
      [] kind = "staleFull" ->
            Element("Locators", 0, <<Element("Locators", 0, <<StaleLocator>>)>>)

ChildLists ==
    UNION {{[i \in 1..n |-> MakeChild(f[i], i)] : f \in [1..n -> ChildKinds]} : n \in 0..MaxChildren}

LocatorsChildren(children) == {i \in 1..Len(children) : children[i].tag = "Locators"}

\* a project document holds at most one Locators child of LiveSet; the root may lack LiveSet
Documents ==
    {Tree(TRUE, c) : c \in {d \in ChildLists : Cardinality(LocatorsChildren(d)) <= 1}}
        \cup {Tree(FALSE, <<>>)}

MarkerRecords ==
    {[bar |-> <<"1">>, marker |-> PyStr("Intro")],
     [bar |-> <<"3">>, marker |-> PyStr("Chorus")],
     [bar |-> <<"1", "2">>, marker |-> PyStr("")]}

MarkerLists == UNION {[1..n -> MarkerRecords] : n \in 0..MaxMarkers}

\* markers before extract_marker_from_gp_xml returned
NoValue == <<[bar |-> <<>>, marker |-> <<"unset">>]>>

NoFiles == <<>>

InitSplice ==
    /\ tree \in Documents
    /\ before = tree
    /\ log = <<>>
    /\ markers = NoValue
    /\ fs = NoFiles
    /\ fs0 = NoFiles
    /\ argv = <<>>
    /\ entry = "functions"
    /\ pc = "splice"
    /\ raised = "none"
    /\ failedIn = "none"
    /\ runs = 0

\* a caller applies the splicer to the document, at most twice in sequence
CallAddMarkers ==
    /\ pc = "splice"
    /\ Len(log) < 2
    /\ \E ms \in MarkerLists :
         LET r == add_markers_to_ableton_project(tree, ms, Len(log) + 1)
         IN  /\ tree' = r.tree
             /\ before' = tree
             /\ log' = Append(log, [markers |-> ms, raised |-> r.raised])
    /\ UNCHANGED <<markers, fs, fs0, argv, entry, pc, raised, failedIn, runs>>

NextSplice == CallAddMarkers

SpecSplice == InitSplice /\ [][NextSplice]_vars

----------------------------------------------------------------------------
(* Files and paths *)

\* add_als_extension_if_it_is_not_set
add_als_extension_if_it_is_not_set(als_file) ==
    IF Len(als_file) > 0 /\ als_file[Len(als_file)] = ".als"
    THEN als_file
    ELSE Append(als_file, ".als")

IsNotAls(piece) == piece # ".als"

\* als_project.replace(".als", ""): every occurrence goes
als_xml_of(als_project) == SelectSeq(als_project, IsNotAls)

\* f"{als_xml}_old.als"
backup_of(als_xml) == als_xml \o <<"_old", ".als">>

NoNotation == [hasPart |-> FALSE, measures |-> <<>>]

\* a file: its first two bytes and what its content holds
File(magic, t, n) == [magic |-> magic, tree |-> t, notation |-> n]

Absent == File("absent", NoTree, NoNotation)

\* a file cut short by a failed write; it no longer opens as a project
Partial == File("partial", NoTree, NoNotation)

GzipMagic == "1f8b"

XmlMagic == "3c3f"

\* serialising drops object identity: every element of a parsed text is a new object
Reparsed(e) ==
    [e EXCEPT !.gen = 0, !.kids = [k \in 1..Len(@) |-> [@[k] EXCEPT !.gen = 0]]]

\* ElementTree.write(xml_declaration=True) after ET.indent: the text of the tree
XmlText(t) ==
    File(XmlMagic, [t EXCEPT !.LiveSet = [i \in 1..Len(@) |-> Reparsed(@[i])]], NoNotation)

\* gzip.GzipFile(...).write of a file's bytes
GzipCompress(f) == [f EXCEPT !.magic = GzipMagic]

\* gzip.open(...).read().decode("utf-8") and ET.fromstring
GzipDecompressAndParse(f) == f.tree

\* extract_xml_from_ableton_project
extract_xml_from_ableton_project(files, als_file_arg) ==
    LET als_file == add_als_extension_if_it_is_not_set(als_file_arg)
    IN  IF files[als_file] = Absent
        THEN [tree |-> NoTree, raised |-> "FileNotFoundError"]
        ELSE IF files[als_file].magic # GzipMagic
        THEN [tree |-> NoTree, raised |-> "Exception"]
        ELSE [tree |-> GzipDecompressAndParse(files[als_file]), raised |-> "none"]

----------------------------------------------------------------------------
(* extract_marker_from_gp_xml *)
(* A notation document: whether the root has a "part", and its measures;   *)
(* a measure has a number and directions; a direction is the sequence of   *)
(* its direction-type children; a direction-type is the sequence of the    *)
(* texts of its rehearsal children.                                        *)

\* measure.find("direction") is true: the first direction exists and has children
MeasureKept(measure) ==
    /\ Len(measure.directions) > 0
    /\ Len(measure.directions[1]) # 0

\* direction.find("direction-type") is None: the comprehension raises
DirectionRaises(direction) == Len(direction) = 0

\* direction.find("direction-type").findall("rehearsal") is a non-empty list
DirectionKept(direction) == Len(direction[1]) # 0

RECURSIVE DirectionMarkers(_, _)
\* the records of one measure: the first rehearsal of the first direction-type of each kept direction
DirectionMarkers(measure, d) ==
    IF d > Len(measure.directions) THEN <<>>
    ELSE (IF DirectionKept(measure.directions[d])
          THEN <<[bar |-> measure.number, marker |-> measure.directions[d][1][1]]>>
          ELSE <<>>) \o DirectionMarkers(measure, d + 1)

RECURSIVE MeasureMarkers(_, _)
MeasureMarkers(measures, m) ==
    IF m > Len(measures) THEN <<>>
    ELSE (IF MeasureKept(measures[m]) THEN DirectionMarkers(measures[m], 1) ELSE <<>>)
            \o MeasureMarkers(measures, m + 1)

extract_marker_from_gp_xml(files, gp_xml_file) ==
    IF files[gp_xml_file] = Absent
    THEN [marker_list |-> <<>>, raised |-> "FileNotFoundError"]
    ELSE
      LET doc == files[gp_xml_file].notation
      IN  IF ~doc.hasPart
          THEN [marker_list |-> <<>>, raised |-> "AttributeError"]
          ELSE IF \E m \in 1..Len(doc.measures) :
                    /\ MeasureKept(doc.measures[m])
                    /\ \E d \in 1..Len(doc.measures[m].directions) :
                          DirectionRaises(doc.measures[m].directions[d])
          THEN [marker_list |-> <<>>, raised |-> "AttributeError"]
          ELSE [marker_list |-> MeasureMarkers(doc.measures, 1), raised |-> "none"]

----------------------------------------------------------------------------
(* The run: the __main__ block and replace_ableton_project, step by step *)

\* the __main__ block saving the project before the markers are added
main_steps_saving_first == <<"load", "extract", "replace", "splice">>

\* the calls of the __main__ block, in order
main_steps == <<"load", "extract", "splice", "replace">>

\* replace_ableton_project writing the new project before moving the old one away
replace_steps_writing_first == <<"write", "compress", "move", "remove">>

\* the file operations of replace_ableton_project, in order
replace_steps == <<"move", "write", "compress", "remove">>

Program ==
    LET i == CHOOSE k \in 1..Len(main_steps) : main_steps[k] = "replace"
    IN  SubSeq(main_steps, 1, i - 1) \o replace_steps \o SubSeq(main_steps, i + 1, Len(main_steps))

Pos(step) == CHOOSE k \in 1..Len(Program) : Program[k] = step

After(step) == IF Pos(step) = Len(Program) THEN "done" ELSE Program[Pos(step) + 1]

Start(e) == IF e = "__main__" THEN "args" ELSE Program[1]

ProjectPath == add_als_extension_if_it_is_not_set(argv.als_file)

IntermediatePath == als_xml_of(ProjectPath)

BackupPath == backup_of(IntermediatePath)

Abort(step, exception) ==
    /\ pc' = "aborted"
    /\ raised' = exception
    /\ failedIn' = step

Continue(step) ==
    /\ pc' = After(step)
    /\ UNCHANGED <<raised, failedIn>>

\* line 138: args is an argparse.Namespace, which has no __getitem__
MainSubscriptsArgs ==
    /\ pc = "args"
    /\ Abort("args", "TypeError")
    /\ UNCHANGED <<tree, before, log, markers, fs, fs0, argv, entry, runs>>

Load ==
    /\ pc = "load"
    /\ LET r == extract_xml_from_ableton_project(fs, argv.als_file)
       IN  IF r.raised = "none"
           THEN tree' = r.tree /\ Continue("load")
           ELSE UNCHANGED tree /\ Abort("load", r.raised)
    /\ UNCHANGED <<before, log, markers, fs, fs0, argv, entry, runs>>

Extract ==
    /\ pc = "extract"
    /\ LET r == extract_marker_from_gp_xml(fs, argv.gp_xml_file)
       IN  IF r.raised = "none"
           THEN markers' = r.marker_list /\ Continue("extract")
           ELSE UNCHANGED markers /\ Abort("extract", r.raised)
    /\ UNCHANGED <<tree, before, log, fs, fs0, argv, entry, runs>>

Splice ==
    /\ pc = "splice"
    /\ LET r == add_markers_to_ableton_project(tree, markers, Len(log) + 1)
       IN  /\ tree' = r.tree
           /\ before' = tree
           /\ log' = Append(log, [markers |-> markers, raised |-> r.raised])
           /\ IF r.raised = "none" THEN Continue("splice") ELSE Abort("splice", r.raised)
    /\ UNCHANGED <<markers, fs, fs0, argv, entry, runs>>

\* shutil.move(als_project, backup): os.rename replaces a file at the
\* destination; where it refuses, shutil.move copies over it and unlinks the source
Move ==
    /\ pc = "move"
    /\ IF fs[ProjectPath] = Absent
       THEN UNCHANGED fs /\ Abort("move", "FileNotFoundError")
       ELSE /\ fs' = [fs EXCEPT ![BackupPath] = fs[ProjectPath], ![ProjectPath] = Absent]
            /\ Continue("move")
    /\ UNCHANGED <<tree, before, log, markers, fs0, argv, entry, runs>>

\* ET.indent, open(als_xml, "wb+") and ElementTree.write; the write may fail
Write ==
    /\ pc = "write"
    /\ \/ /\ fs' = [fs EXCEPT ![IntermediatePath] = XmlText(tree)]
          /\ Continue("write")
       \/ /\ \E left \in {fs[IntermediatePath], Partial} :
                fs' = [fs EXCEPT ![IntermediatePath] = left]
          /\ Abort("write", "OSError")
    /\ UNCHANGED <<tree, before, log, markers, fs0, argv, entry, runs>>

\* open(als_xml, "rb"), open(als_project, "wb"), gzip of the one into the other
Compress ==
    /\ pc = "compress"
    /\ IF fs[IntermediatePath] = Absent
       THEN UNCHANGED fs /\ Abort("compress", "FileNotFoundError")
       ELSE \/ /\ fs' = [fs EXCEPT ![ProjectPath] = GzipCompress(fs[IntermediatePath])]
               /\ Continue("compress")
            \/ /\ \E left \in {fs[ProjectPath], Partial} :
                     fs' = [fs EXCEPT ![ProjectPath] = left]
               /\ Abort("compress", "OSError")
    /\ UNCHANGED <<tree, before, log, markers, fs0, argv, entry, runs>>

\* os.remove(als_xml)
RemoveIntermediate ==
    /\ pc = "remove"
    /\ IF fs[IntermediatePath] = Absent
       THEN UNCHANGED fs /\ Abort("remove", "FileNotFoundError")
       ELSE \/ /\ fs' = [fs EXCEPT ![IntermediatePath] = Absent]
               /\ Continue("remove")
            \/ /\ UNCHANGED fs
               /\ Abort("remove", "OSError")
    /\ UNCHANGED <<tree, before, log, markers, fs0, argv, entry, runs>>

\* the program is started again with the same arguments on the files the last run left
NewRun ==
    /\ pc \in {"done", "aborted"}
    /\ runs < MaxRuns
    /\ runs' = runs + 1
    /\ pc' = Start(entry)
    /\ raised' = "none"
    /\ failedIn' = "none"
    /\ tree' = NoTree
    /\ before' = NoTree
    /\ log' = <<>>
    /\ markers' = NoValue
    /\ fs0' = fs
    /\ UNCHANGED <<fs, argv, entry>>

----------------------------------------------------------------------------
(* Inputs of the run *)

SongPath == <<"song", ".als">>

GpPath == <<"tab", ".xml">>

AllPaths == {SongPath, als_xml_of(SongPath), backup_of(als_xml_of(SongPath)), GpPath}

Arguments ==
    {[als_file |-> a, gp_xml_file |-> GpPath] : a \in {SongPath, als_xml_of(SongPath)}}

\* LiveSet children [Tracks, ViewStateSessionMixerHeight, SomeOtherNode]
ScenarioTree ==
    Tree(TRUE, <<Element("Tracks", 0, <<>>), Element(Anchor, 0, <<>>),
                 Element("SomeOtherNode", 0, <<>>)>>)

ProjectTrees ==
    {ScenarioTree,
     Tree(TRUE, <<MakeChild("staleFull", 1), MakeChild("anchor", 2)>>),
     Tree(TRUE, <<MakeChild("staleFull", 1), MakeChild("other", 2)>>),
     Tree(FALSE, <<>>)}

Notation(measures) == [hasPart |-> TRUE, measures |-> measures]

Measure(number, directions) == [number |-> number, directions |-> directions]

\* one measure, number "3", with the rehearsal mark "Chorus"
ScenarioNotation == Notation(<<Measure(<<"3">>, << << <<PyStr("Chorus")>> >> >>)>>)

Notations ==
    {ScenarioNotation,
     Notation(<<Measure(<<"1">>, <<>>)>>),
     Notation(<<Measure(<<"1">>, << << <<PyStr("Intro")>> >> >>),
                Measure(<<"5">>, << << <<PyNone>> >> >>)>>),
     NoNotation}

ProjectFiles ==
    {Absent, XmlText(ScenarioTree)} \cup {GzipCompress(XmlText(t)) : t \in ProjectTrees}

OldBackup == GzipCompress(XmlText(Tree(TRUE, <<MakeChild("anchor", 1)>>)))

NotationFiles == {Absent} \cup {File(XmlMagic, NoTree, n) : n \in Notations}

InitRun ==
    /\ argv \in Arguments
    /\ entry \in {"__main__", "functions"}
    /\ \E p \in ProjectFiles, b \in {Absent, OldBackup}, g \in NotationFiles :
         fs = [q \in AllPaths |->
                 IF q = SongPath THEN p
                 ELSE IF q = backup_of(als_xml_of(SongPath)) THEN b
                 ELSE IF q = GpPath THEN g
                 ELSE Absent]
    /\ fs0 = fs
    /\ tree = NoTree
    /\ before = NoTree
    /\ log = <<>>
    /\ markers = NoValue
    /\ pc = Start(entry)
    /\ raised = "none"
    /\ failedIn = "none"
    /\ runs = 1

NextRun ==
    \/ MainSubscriptsArgs
    \/ Load
    \/ Extract
    \/ Splice
    \/ Move
    \/ Write
    \/ Compress
    \/ RemoveIntermediate
    \/ NewRun

SpecRun == InitRun /\ [][NextRun]_vars

----------------------------------------------------------------------------
(* Inputs of the extractor specification *)

RehearsalNames == <<"Intro", "Verse", "Chorus", "Bridge", "Solo", "Outro", "Coda", "Break">>

\* the text of rehearsal r of direction-type t of direction d: different within a measure
RehearsalText(d, t, r) ==
    LET k == ((d - 1) * (MaxDirTypes + 1) + (t - 1)) * (MaxRehearsals + 1) + r
    IN  PyStr(RehearsalNames[((k - 1) % Len(RehearsalNames)) + 1])

\* measures are numbered 1, 3, 5, ...
MeasureNumber(m) == IntFormat(2 * m - 1)

DirectionShapes == UNION {[1..n -> 0..MaxRehearsals] : n \in 0..MaxDirTypes}

MeasureShapes == UNION {[1..n -> DirectionShapes] : n \in 0..MaxDirections}

NotationShapes == UNION {[1..n -> MeasureShapes] : n \in 0..MaxMeasures}

MakeNotation(shape) ==
    Notation([m \in 1..Len(shape) |->
        Measure(MeasureNumber(m),
            [d \in 1..Len(shape[m]) |->
                [t \in 1..Len(shape[m][d]) |->
                    [r \in 1..shape[m][d][t] |-> RehearsalText(d, t, r)]]])])

InitExtract ==
    /\ argv = [als_file |-> SongPath, gp_xml_file |-> GpPath]
    /\ entry = "functions"
    /\ \E shape \in NotationShapes :
         fs = [q \in AllPaths |->
                 IF q = GpPath THEN File(XmlMagic, NoTree, MakeNotation(shape)) ELSE Absent]
    /\ fs0 = fs
    /\ tree = NoTree
    /\ before = NoTree
    /\ log = <<>>
    /\ markers = NoValue
    /\ pc = "extract"
    /\ raised = "none"
    /\ failedIn = "none"
    /\ runs = 1

NextExtract == Extract

SpecExtract == InitExtract /\ [][NextExtract]_vars

----------------------------------------------------------------------------
(* Properties of add_markers_to_ableton_project (SpecSplice) *)

Called == Len(log) >= 1

LastCall == log[Len(log)]

Succeeded == Called /\ LastCall.raised = "none"

HasAnchor(t) == t.hasLiveSet /\ AnchorPositions(t.LiveSet) # {}

\* the elements one level below the Locators children of LiveSet
InnerElements(t) ==
    {t.LiveSet[i].kids[j] : <<i, j>> \in
        {p \in (1..Len(t.LiveSet)) \X (1..(MaxMarkers + MaxChildren + 2)) :
            /\ t.LiveSet[p[1]].tag = "Locators"
            /\ p[2] <= Len(t.LiveSet[p[1]].kids)}}

\* the inner collections created by application g
Produced(t, g) == {e \in InnerElements(t) : e.gen = g}

\* who a child is: its tag and the application that created it
Identity(children) == [i \in 1..Len(children) |-> <<children[i].tag, children[i].gen>>]

\* C1: a non-empty marker list m[1..k] applied to a document with LiveSet and
\* the anchor succeeds and produces one inner Locators collection of exactly k
\* Locator entries; entry i has Id i, Time (bar of m[i] - 1) * 4, Name the
\* label of m[i], LomId "0", Annotation "" and IsSongStart "false".
C1_LocatorsBuiltFromMarkers ==
    (Called /\ LastCall.markers # <<>> /\ HasAnchor(before)) =>
        /\ LastCall.raised = "none"
        /\ Cardinality(Produced(tree, Len(log))) = 1
        /\ \A c \in Produced(tree, Len(log)) :
             /\ Len(c.kids) = Len(LastCall.markers)
             /\ \A i \in 1..Len(c.kids) :
                  /\ c.kids[i].tag = "Locator"
                  /\ c.kids[i].Id = IntFormat(i)
                  /\ int(c.kids[i].Id) = i
                  /\ int(c.kids[i].Time) = (int(LastCall.markers[i].bar) - 1) * 4
                  /\ c.kids[i].Time = IntFormat((int(LastCall.markers[i].bar) - 1) * 4)
                  /\ PyStr(c.kids[i].Name) = LastCall.markers[i].marker
                  /\ c.kids[i].LomId = "0"
                  /\ c.kids[i].Annotation = ""
                  /\ c.kids[i].IsSongStart = "false"

C1_Witness ==
    /\ Succeeded
    /\ Len(LastCall.markers) = 2
    /\ LastCall.markers[1].bar = <<"1", "2">>
    /\ LastCall.markers[2].bar = <<"3">>
    /\ \E c \in Produced(tree, Len(log)) :
         /\ c.kids[1].Time = <<"4", "4">>
         /\ c.kids[2].Time = <<"8">>
         /\ c.kids[2].Id = <<"2">>

\* C2: after two successful applications with different non-empty marker
\* lists A then B, LiveSet holds only the locators built from B: no Locator
\* entry and no Locators node of the first application remains.
C2_SecondApplicationLeavesNoResidue ==
    (Len(log) = 2 /\ log[1].raised = "none" /\ log[2].raised = "none"
        /\ log[1].markers # log[2].markers) =>
        /\ \A i \in LocatorsChildren(tree.LiveSet) : tree.LiveSet[i].gen # 1
        /\ \A e \in InnerElements(tree) : e.gen # 1
        /\ \A e \in InnerElements(tree) : e.kids = LocatorEntries(log[2].markers)

\* C3: when a Locators child of LiveSet exists before a successful call
\* (empty or not, anywhere among the siblings), it is removed: afterwards
\* LiveSet has exactly one Locators child, the newly inserted one, and the new
\* Locator entries are inside it.
C3_StaleLocatorsRemoved ==
    (Succeeded /\ LocatorsChildren(before.LiveSet) # {}) =>
        /\ Cardinality(LocatorsChildren(tree.LiveSet)) = 1
        /\ \A i \in LocatorsChildren(tree.LiveSet) :
             /\ tree.LiveSet[i].gen = Len(log)
             /\ tree.LiveSet[i].kids =
                    <<Element("Locators", Len(log), LocatorEntries(LastCall.markers))>>

\* the children created by application g
NewChildren(t, g) == {i \in LocatorsChildren(t.LiveSet) : t.LiveSet[i].gen = g}

\* C4: after a successful call the new Locators node immediately follows the
\* ViewStateSessionMixerHeight child, and the other children of LiveSet are,
\* in the same order, the children before the call (less a removed stale
\* Locators node).
C4_InsertedAfterAnchorOthersKept ==
    Succeeded =>
        /\ Cardinality(NewChildren(tree, Len(log))) = 1
        /\ \A q \in NewChildren(tree, Len(log)) :
             /\ q > 1
             /\ tree.LiveSet[q - 1].tag = Anchor
             /\ LET others == Remove(Identity(tree.LiveSet), q)
                    was == Identity(before.LiveSet)
                IN  \/ others = was
                    \/ \E i \in LocatorsChildren(before.LiveSet) : others = Remove(was, i)

C4_Witness ==
    /\ Succeeded
    /\ Len(before.LiveSet) = 3
    /\ before.LiveSet[1].tag = "Locators"
    /\ Truthy(before.LiveSet[1])
    /\ before.LiveSet[2].tag = Anchor
    /\ Identity(tree.LiveSet) =
          <<<<Anchor, 0>>, <<"Locators", Len(log)>>, Identity(before.LiveSet)[3]>>

\* C5: an empty marker list makes the call fail and leaves the document as it
\* was, a Locators node it held included.
C5_EmptyMarkersRejected ==
    (Called /\ LastCall.markers = <<>>) =>
        /\ LastCall.raised = "Exception"
        /\ tree = before

C5_Witness ==
    /\ Called
    /\ LastCall.markers = <<>>
    /\ LastCall.raised = "Exception"
    /\ HasAnchor(tree)
    /\ \E i \in LocatorsChildren(tree.LiveSet) : Truthy(tree.LiveSet[i])

----------------------------------------------------------------------------
(* Properties of the run (SpecRun) *)

\* where the run is, or where it stopped
At == IF pc = "aborted" THEN failedIn ELSE pc

InProgram(step) == \E k \in 1..Len(Program) : Program[k] = step

\* the backup move of this run has been done
Moved == At = "done" \/ (InProgram(At) /\ Pos(At) > Pos("move"))

\* C6: the move of the project file to its "_old" path comes before any write
\* to the project path or the intermediate path, and in every state after the
\* move, a failure of a later step included, the backup path holds the
\* original project bytes.
C6_BackupPrecedesWrites ==
    /\ ~Moved =>
          /\ fs[ProjectPath] = fs0[ProjectPath]
          /\ fs[IntermediatePath] = fs0[IntermediatePath]
    /\ Moved =>
          /\ fs0[ProjectPath] # Absent
          /\ fs[BackupPath] = fs0[ProjectPath]

C6_Witness ==
    /\ pc = "aborted"
    /\ failedIn = "compress"
    /\ fs[ProjectPath] = Partial
    /\ fs[IntermediatePath] = XmlText(tree)
    /\ fs[BackupPath] = fs0[ProjectPath]
    /\ fs[BackupPath].magic = GzipMagic

\* C7: the backup step fails, overwriting nothing, when the project file is
\* gone or a file already exists at the backup path; a second run never
\* replaces the backup the first run left.
C7_BackupStepRefusesCollision ==
    /\ (pc = "aborted" /\ failedIn = "move") => fs = fs0
    /\ (fs0[ProjectPath] = Absent \/ fs0[BackupPath] # Absent) => ~Moved

\* the project the scenario must end with
ScenarioResult ==
    Tree(TRUE, <<Element("Tracks", 0, <<>>), Element(Anchor, 0, <<>>),
                 Element("Locators", 0, <<Element("Locators", 0,
                    <<[tag |-> "Locator", Id |-> <<"1">>, LomId |-> "0", Time |-> <<"8">>,
                       Name |-> "Chorus", Annotation |-> "", IsSongStart |-> "false"]>>)>>),
                 Element("SomeOtherNode", 0, <<>>)>>)

IsScenario ==
    /\ runs = 1
    /\ fs0[SongPath] = GzipCompress(XmlText(ScenarioTree))
    /\ fs0[GpPath] = File(XmlMagic, NoTree, ScenarioNotation)

\* C9: the program run on the project [..., ViewStateSessionMixerHeight,
\* SomeOtherNode] and a notation file with the mark "Chorus" in measure 3 ends
\* normally and leaves the project [..., ViewStateSessionMixerHeight, Locators,
\* SomeOtherNode] with the one Locator Id 1, Time 8, Name "Chorus".
C9_EndToEndScenario ==
    (IsScenario /\ entry = "__main__" /\ pc \in {"done", "aborted"}) =>
        /\ pc = "done"
        /\ fs[SongPath] = GzipCompress(XmlText(ScenarioResult))

\* the same scenario with the four functions called directly, in the order of the script
ScenarioThroughFunctions ==
    (IsScenario /\ entry = "functions" /\ pc = "done") =>
        fs[SongPath] = GzipCompress(XmlText(ScenarioResult))

\* C10: a run that aborts in load, extraction or splicing has moved, created,
\* written and deleted no file.
C10_EarlyFailuresTouchNoFile ==
    (pc = "aborted" /\ failedIn \in {"load", "extract", "splice"}) => fs = fs0

C10_Witness ==
    /\ pc = "aborted"
    /\ failedIn = "splice"
    /\ raised = "IndexError"
    /\ tree # before
    /\ fs = fs0
    /\ fs[BackupPath] = OldBackup

----------------------------------------------------------------------------
(* Properties of extract_marker_from_gp_xml (SpecExtract) *)

RECURSIVE Flatten(_)
Flatten(s) == IF s = <<>> THEN <<>> ELSE Head(s) \o Flatten(Tail(s))

\* one record per rehearsal node of a measure, in document order
RehearsalsOfMeasure(measure) ==
    Flatten([d \in 1..Len(measure.directions) |->
        Flatten([t \in 1..Len(measure.directions[d]) |->
            [r \in 1..Len(measure.directions[d][t]) |->
                [bar |-> measure.number, marker |-> measure.directions[d][t][r]]]])])

RehearsalsOfDocument(doc) ==
    Flatten([m \in 1..Len(doc.measures) |-> RehearsalsOfMeasure(doc.measures[m])])

\* C8: extraction returns exactly one record per rehearsal node under a
\* direction-type of a direction of a measure of the part, with the measure's
\* number as bar, in measure order and then direction order; measures and
\* directions without a rehearsal add nothing and drop nothing.
C8_OneRecordPerRehearsal ==
    (At # "extract" /\ fs0[GpPath] # Absent /\ fs0[GpPath].notation.hasPart) =>
        /\ raised = "none"
        /\ markers = RehearsalsOfDocument(fs0[GpPath].notation)

====
